---- MODULE Spec2Model ----
(***************************************************************************)
(* Signal-rule evaluators of the two hyperopt classes                      *)
(*   user_data/hyperopts/bb_rsi_hyperopt.py     (BBRSIHyperOpt)            *)
(*   user_data/hyperopts/strategy2_hyperopt.py  (Strategy002Hyperopt)      *)
(* A host annotates a table of candles (populate_indicators), obtains an    *)
(* evaluator (a closure of buy_/sell_strategy_generator over an assignment, *)
(* or a static populate_buy_trend / populate_sell_trend) and applies it to  *)
(* the table.  A dataframe is a sequence of rows, a row a function from     *)
(* column name to value; an assignment (params) is a function from key to   *)
(* value whose DOMAIN is the set of keys present.                           *)
(***************************************************************************)
EXTENDS Integers, Sequences, FiniteSets, TLC

VARIABLES hyperopt, dataframe, params, evaluator, before, err, trace, calls

vars == <<hyperopt, dataframe, params, evaluator, before, err, trace, calls>>

(* ------------------------------ bounds --------------------------------- *)

\* Longest table the host hands over (a window of consecutive candles).
MaxRows == 2

\* How often the host applies one evaluator to the same table.
MaxCalls == 2

(* ------------------------- values and columns -------------------------- *)

\* A cell no one has written: pandas shows it as NaN.  A signal column that
\* does not exist yet and one that holds NaN on a row are not told apart.
NaN == "NaN"

\* The value `dataframe.loc[mask, 'buy'] = 1` writes.
One == "1"

Zero == "0"

HyperoptClasses == {"BBRSIHyperOpt", "Strategy002Hyperopt"}

PriceColumns == {"date", "open", "high", "low", "close", "volume"}

SignalColumns == {"buy", "sell"}

\* Columns of a table that an earlier strategy run has already worked on: the
\* single-width band columns and both signal columns with values.
StrategyColumns == {"bb_lowerband", "bb_middleband"}

(* ------------------------------ market --------------------------------- *)

\* What the exchange and the indicator library yield for one candle: the
\* close, the mean and deviation of the typical price over its window, the
\* oscillators, the hammer score, the parabolic stop, and the marks an
\* earlier run left on it.
Candle(c, r, k, h, s, b, sl) ==
    [close |-> c, mean |-> 10, std |-> 2, rsi |-> r, slowk |-> k,
     hammer |-> h, sar |-> s, buy |-> b, sell |-> sl]

Market ==
    << Candle(1, 25, 15, 100, 14, NaN, NaN),
       Candle(3, 25, 15, 0, 1, Zero, One),
       Candle(5, 35, 15, 100, 9, One, Zero),
       Candle(7, 25, 25, 100, 9, One, NaN),
       Candle(9, 75, 15, 100, 14, Zero, Zero),
       Candle(11, 60, 25, 0, 14, NaN, One),
       Candle(13, 0, 15, 100, 1, One, One),
       Candle(5, 60, 15, 100, 1, Zero, NaN) >>

\* ta.RSI, ta.STOCH()['slowk'], ta.SAR, ta.CDLHAMMER of the row dated d.
RSI(d) == Market[d].rsi

STOCH_slowk(d) == Market[d].slowk

SAR(d) == Market[d].sar

CDLHAMMER(d) == Market[d].hammer

\* qtpylib.bollinger_bands(typical_price, window=20, stds=n) of the row dated d.
bollinger_bands(d, stds) ==
    [lower |-> Market[d].mean - stds * Market[d].std,
     mid   |-> Market[d].mean,
     upper |-> Market[d].mean + stds * Market[d].std]

\* (exp(2x) - 1) / (exp(2x) + 1) with x = 0.1 * (rsi - 50), in hundredths,
\* tabulated at the oscillator values of Market.
fisher_rsi(rsi) ==
    CASE rsi = 0  -> -100
      [] rsi = 25 -> -99
      [] rsi = 35 -> -91
      [] rsi = 60 -> 76
      [] rsi = 75 -> 99

\* The OHLCV row of the candle dated d, signal cells unwritten.
PriceRow(d) ==
    [c \in PriceColumns \cup SignalColumns |->
        CASE c = "date" -> d
          [] c = "open" -> Market[d].close
          [] c = "high" -> Market[d].close + 1
          [] c = "low" -> Market[d].close - 1
          [] c = "close" -> Market[d].close
          [] c = "volume" -> 1
          [] OTHER -> NaN]

\* The same row after an earlier strategy run: its band columns and its marks.
StrategyRow(d) ==
    [c \in PriceColumns \cup SignalColumns \cup StrategyColumns |->
        CASE c \in PriceColumns -> PriceRow(d)[c]
          [] c = "bb_lowerband" -> bollinger_bands(d, 2).lower
          [] c = "bb_middleband" -> bollinger_bands(d, 2).mid
          [] c = "buy" -> Market[d].buy
          [] c = "sell" -> Market[d].sell]

\* The tables the host can load: windows of 1..MaxRows consecutive candles,
\* fresh from the exchange or carried over from a strategy run.
Window(first, n, carried) ==
    [i \in 1..n |-> IF carried THEN StrategyRow(first + i - 1)
                               ELSE PriceRow(first + i - 1)]

LoadableTables ==
    UNION { { Window(first, n, carried) :
                first \in 1..(Len(Market) - n + 1), carried \in BOOLEAN } :
            n \in 1..MaxRows }

Columns(df) == DOMAIN df[1]

Column(df, c) == [i \in 1..Len(df) |-> df[i][c]]

(* --------------------------- the annotators ---------------------------- *)

\* BBRSIHyperOpt.populate_indicators: assigns its columns row by row.
BBRSI_populate_indicators(df) ==
    [i \in 1..Len(df) |->
        LET d == df[i]["date"]
            added ==
                [c \in {"rsi", "sell-rsi",
                        "bb_lowerband1", "bb_middleband1", "bb_upperband1",
                        "bb_lowerband2", "bb_middleband2", "bb_upperband2",
                        "bb_lowerband3", "bb_middleband3", "bb_upperband3",
                        "bb_lowerband4", "bb_middleband4", "bb_upperband4"} |->
                    CASE c \in {"rsi", "sell-rsi"} -> RSI(d)
                      [] c = "bb_lowerband1" -> bollinger_bands(d, 1).lower
                      [] c = "bb_middleband1" -> bollinger_bands(d, 1).mid
                      [] c = "bb_upperband1" -> bollinger_bands(d, 1).upper
                      [] c = "bb_lowerband2" -> bollinger_bands(d, 2).lower
                      [] c = "bb_middleband2" -> bollinger_bands(d, 2).mid
                      [] c = "bb_upperband2" -> bollinger_bands(d, 2).upper
                      [] c = "bb_lowerband3" -> bollinger_bands(d, 3).lower
                      [] c = "bb_middleband3" -> bollinger_bands(d, 3).mid
                      [] c = "bb_upperband3" -> bollinger_bands(d, 3).upper
                      [] c = "bb_lowerband4" -> bollinger_bands(d, 4).lower
                      [] c = "bb_middleband4" -> bollinger_bands(d, 4).mid
                      [] c = "bb_upperband4" -> bollinger_bands(d, 4).upper]
        IN  added @@ df[i]]

\* Strategy002Hyperopt.populate_indicators.
Strategy002_populate_indicators(df) ==
    [i \in 1..Len(df) |->
        LET d == df[i]["date"]
            added ==
                [c \in {"slowk", "rsi", "fisher_rsi", "bb_lowerband1",
                        "bb_lowerband2", "bb_lowerband3", "bb_lowerband4",
                        "sar", "CDLHAMMER"} |->
                    CASE c = "slowk" -> STOCH_slowk(d)
                      [] c = "rsi" -> RSI(d)
                      [] c = "fisher_rsi" -> fisher_rsi(RSI(d))
                      [] c = "bb_lowerband1" -> bollinger_bands(d, 1).lower
                      [] c = "bb_lowerband2" -> bollinger_bands(d, 2).lower
                      [] c = "bb_lowerband3" -> bollinger_bands(d, 3).lower
                      [] c = "bb_lowerband4" -> bollinger_bands(d, 4).lower
                      [] c = "sar" -> SAR(d)
                      [] c = "CDLHAMMER" -> CDLHAMMER(d)]
        IN  added @@ df[i]]

populate_indicators(cls, df) ==
    IF cls = "BBRSIHyperOpt" THEN BBRSI_populate_indicators(df)
                             ELSE Strategy002_populate_indicators(df)

(* ----------------------- building the conjunction ---------------------- *)

\* An evaluator run so far: the error raised (a failed dict or column lookup
\* is Python's KeyError) and the list `conditions` of boolean columns.
NoError == "none"

KeyError == "KeyError"

Run(e, conds) == [err |-> e, conditions |-> conds]

\* One elementwise comparison, `left <op> right`.
Holds(left, op, right) ==
    CASE op = "<" -> left < right
      [] op = ">" -> left > right
      [] op = "==" -> left = right

\* conditions.append(dataframe[col] <op> value): the column lookup may fail.
AppendScalar(run, df, col, op, value) ==
    IF col \notin Columns(df)
    THEN Run(KeyError, run.conditions)
    ELSE Run(NoError,
             Append(run.conditions,
                    [i \in 1..Len(df) |-> Holds(df[i][col], op, value)]))

\* conditions.append(dataframe[lhs] <op> dataframe[rhs]).
AppendColumns(run, df, lhs, op, rhs) ==
    IF lhs \notin Columns(df) \/ rhs \notin Columns(df)
    THEN Run(KeyError, run.conditions)
    ELSE Run(NoError,
             Append(run.conditions,
                    [i \in 1..Len(df) |-> Holds(df[i][lhs], op, df[i][rhs])]))

\* if <testKey> in params and params[<enableKey>]:
\*     conditions.append(dataframe[<col>] <op> params[<valueKey>])
Guard(run, df, p, testKey, enableKey, col, op, valueKey) ==
    IF run.err # NoError THEN run
    ELSE IF testKey \notin DOMAIN p THEN run
    ELSE IF enableKey \notin DOMAIN p THEN Run(KeyError, run.conditions)
    ELSE IF ~p[enableKey] THEN run
    ELSE IF col \notin Columns(df) THEN Run(KeyError, run.conditions)
    ELSE IF valueKey \notin DOMAIN p THEN Run(KeyError, run.conditions)
    ELSE AppendScalar(run, df, col, op, p[valueKey])

\* if params[<selectKey>] == <label>:
\*     conditions.append(dataframe[<lhs>] <op> dataframe[<rhs>])
Branch(run, df, p, selectKey, label, lhs, op, rhs) ==
    IF run.err # NoError THEN run
    ELSE IF selectKey \notin DOMAIN p THEN Run(KeyError, run.conditions)
    ELSE IF p[selectKey] # label THEN run
    ELSE AppendColumns(run, df, lhs, op, rhs)

\* reduce(lambda x, y: x & y, conditions) of a non-empty list.
RECURSIVE reduce(_)
reduce(conds) ==
    IF Len(conds) = 1 THEN conds[1]
    ELSE LET x == reduce(SubSeq(conds, 1, Len(conds) - 1))
             y == conds[Len(conds)]
         IN  [i \in DOMAIN y |-> x[i] /\ y[i]]

\* Variant: a full overwrite of the column, `dataframe[col] = mask`.
loc_assign_overwrite(df, mask, col) ==
    [i \in 1..Len(df) |-> [df[i] EXCEPT ![col] = IF mask[i] THEN One ELSE Zero]]

\* Variant: only rows without a value yet count as new signals, the rest are
\* cleared, `dataframe[col] = mask & dataframe[col].isna()`.
loc_assign_fresh_only(df, mask, col) ==
    [i \in 1..Len(df) |->
        [df[i] EXCEPT ![col] = IF mask[i] /\ df[i][col] = NaN THEN One ELSE Zero]]

\* Variant: the write also lands in the other side's signal column.
loc_assign_both_sides(df, mask, col) ==
    [i \in 1..Len(df) |->
        IF mask[i] THEN [df[i] EXCEPT !["buy"] = One, !["sell"] = One] ELSE df[i]]

\* dataframe.loc[mask, col] = 1
loc_assign(df, mask, col) ==
    [i \in 1..Len(df) |-> IF mask[i] THEN [df[i] EXCEPT ![col] = One] ELSE df[i]]

\* Variant: without the `if conditions:` test an empty conjunction is taken
\* as true on every row.
mark_without_test(df, conds, col) ==
    loc_assign(df, IF conds = <<>> THEN [i \in 1..Len(df) |-> TRUE] ELSE reduce(conds), col)

\* if conditions:
\*     dataframe.loc[reduce(lambda x, y: x & y, conditions), col] = 1
mark_if_conditions(df, conds, col) ==
    IF conds = <<>> THEN df ELSE loc_assign(df, reduce(conds), col)

\* What a generated evaluator hands back: the error, the table (written in
\* place, so untouched when the call raised before the write), and how many
\* conditions the guard section and the trigger section appended, with the
\* mask the write used (all false when nothing was written).
Returned(df, guards, triggers, col) ==
    [err |-> triggers.err,
     dataframe |-> IF triggers.err # NoError THEN df
                   ELSE mark_if_conditions(df, triggers.conditions, col),
     mask |-> IF triggers.err # NoError \/ triggers.conditions = <<>>
              THEN [i \in 1..Len(df) |-> FALSE]
              ELSE reduce(triggers.conditions),
     guards |-> Len(guards.conditions),
     triggers |-> Len(triggers.conditions) - Len(guards.conditions)]

\* What a static rule hands back: its mask is written without a test.
ReturnedStatic(df, run, col) ==
    [err |-> run.err,
     dataframe |-> IF run.err # NoError THEN df
                   ELSE loc_assign(df, reduce(run.conditions), col),
     mask |-> IF run.err # NoError THEN [i \in 1..Len(df) |-> FALSE]
              ELSE reduce(run.conditions),
     guards |-> Len(run.conditions),
     triggers |-> 0]

Start == Run(NoError, <<>>)

(* ------------------------- BBRSIHyperOpt rules ------------------------- *)

\* The closure populate_buy_trend of BBRSIHyperOpt.buy_strategy_generator(p).
BBRSI_buy_strategy_generator(p, df) ==
    LET guards == Guard(Start, df, p, "rsi-enabled", "rsi-enabled", "rsi", "<", "rsi-value")
        b1 == Branch(guards, df, p, "trigger", "bb_lower1", "close", "<", "bb_lowerband1")
        b2 == Branch(b1, df, p, "trigger", "bb_lower2", "close", "<", "bb_lowerband2")
        b3 == Branch(b2, df, p, "trigger", "bb_lower3", "close", "<", "bb_lowerband3")
        b4 == Branch(b3, df, p, "trigger", "bb_lower4", "close", "<", "bb_lowerband4")
        triggers == IF "trigger" \in DOMAIN p THEN b4 ELSE guards
    IN  Returned(df, guards, triggers, "buy")

\* The closure populate_sell_trend of BBRSIHyperOpt.sell_strategy_generator(p):
\* the block is entered on 'sell-trigger', the branches compare params['trigger'].
BBRSI_sell_strategy_generator(p, df) ==
    LET guards == Guard(Start, df, p, "sell-rsi-enabled", "sell-rsi-enabled",
                        "rsi", ">", "sell-rsi-value")
        b1 == Branch(guards, df, p, "trigger", "sell_bb_lower1", "close", "<", "bb_lowerband1")
        b2 == Branch(b1, df, p, "trigger", "sell_bb_middle1", "close", "<", "bb_middleband1")
        b3 == Branch(b2, df, p, "trigger", "sell_bb_upper1", "close", "<", "bb_upperband1")
        triggers == IF "sell-trigger" \in DOMAIN p THEN b3 ELSE guards
    IN  Returned(df, guards, triggers, "sell")

\* BBRSIHyperOpt.populate_buy_trend (the static rule).
BBRSI_populate_buy_trend(df) ==
    LET c1 == AppendScalar(Start, df, "rsi", ">", 30)
        c2 == IF c1.err # NoError THEN c1
              ELSE AppendColumns(c1, df, "close", "<", "bb_lowerband")
    IN  ReturnedStatic(df, c2, "buy")

\* BBRSIHyperOpt.populate_sell_trend (the static rule).
BBRSI_populate_sell_trend(df) ==
    ReturnedStatic(df, AppendColumns(Start, df, "close", ">", "bb_middleband"), "sell")

(* ---------------------- Strategy002Hyperopt rules ---------------------- *)

\* The closure populate_buy_trend of Strategy002Hyperopt.buy_strategy_generator(p):
\* the hammer guard is entered on the key 'CDLHAMMER'.
Strategy002_buy_strategy_generator(p, df) ==
    LET g1 == Guard(Start, df, p, "rsi-enabled", "rsi-enabled", "rsi", "<", "rsi-value")
        g2 == Guard(g1, df, p, "slowk-enabled", "slowk-enabled", "slowk", "<", "slowk-value")
        guards == Guard(g2, df, p, "CDLHAMMER", "CDLHAMMER-enabled",
                        "CDLHAMMER", "==", "CDLHAMMER-value")
        b1 == Branch(guards, df, p, "trigger", "bb_lower1", "close", "<", "bb_lowerband1")
        b2 == Branch(b1, df, p, "trigger", "bb_lower2", "close", "<", "bb_lowerband2")
        b3 == Branch(b2, df, p, "trigger", "bb_lower3", "close", "<", "bb_lowerband3")
        b4 == Branch(b3, df, p, "trigger", "bb_lower4", "close", "<", "bb_lowerband4")
        triggers == IF "trigger" \in DOMAIN p THEN b4 ELSE guards
    IN  Returned(df, guards, triggers, "buy")

\* The closure populate_sell_trend of Strategy002Hyperopt.sell_strategy_generator(p).
Strategy002_sell_strategy_generator(p, df) ==
    LET g1 == Guard(Start, df, p, "sell-fisher-rsi-enabled", "sell-fisher-rsi-enabled",
                    "rsi", ">", "sell-fisher-rsi-value")
        guards == Guard(g1, df, p, "sell-sar-enabled", "sell-sar-enabled",
                        "sar", ">", "sell-sar-value")
    IN  Returned(df, guards, guards, "sell")

\* Strategy002Hyperopt.populate_buy_trend (the static rule).
Strategy002_populate_buy_trend(df) ==
    LET c1 == AppendScalar(Start, df, "rsi", "<", 30)
        c2 == IF c1.err # NoError THEN c1 ELSE AppendScalar(c1, df, "slowk", "<", 20)
        c3 == IF c2.err # NoError THEN c2
              ELSE AppendColumns(c2, df, "bb_lowerband", ">", "close")
        c4 == IF c3.err # NoError THEN c3 ELSE AppendScalar(c3, df, "CDLHAMMER", "==", 100)
    IN  ReturnedStatic(df, c4, "buy")

\* Strategy002Hyperopt.populate_sell_trend (the static rule); 0.3 in hundredths.
Strategy002_populate_sell_trend(df) ==
    LET c1 == AppendColumns(Start, df, "sar", ">", "close")
        c2 == IF c1.err # NoError THEN c1 ELSE AppendScalar(c1, df, "fisher_rsi", ">", 30)
    IN  ReturnedStatic(df, c2, "sell")

(* ----------------------------- evaluators ------------------------------ *)

Generated == {"buy_strategy_generator", "sell_strategy_generator"}

Static == {"populate_buy_trend", "populate_sell_trend"}

\* The signal column an evaluator writes.
SignalOf(kind) ==
    IF kind \in {"buy_strategy_generator", "populate_buy_trend"} THEN "buy" ELSE "sell"

\* One call of the evaluator `kind` of class `cls`, closed over `p`, on `df`.
Evaluate(cls, kind, p, df) ==
    CASE cls = "BBRSIHyperOpt" /\ kind = "buy_strategy_generator" ->
            BBRSI_buy_strategy_generator(p, df)
      [] cls = "BBRSIHyperOpt" /\ kind = "sell_strategy_generator" ->
            BBRSI_sell_strategy_generator(p, df)
      [] cls = "BBRSIHyperOpt" /\ kind = "populate_buy_trend" ->
            BBRSI_populate_buy_trend(df)
      [] cls = "BBRSIHyperOpt" /\ kind = "populate_sell_trend" ->
            BBRSI_populate_sell_trend(df)
      [] cls = "Strategy002Hyperopt" /\ kind = "buy_strategy_generator" ->
            Strategy002_buy_strategy_generator(p, df)
      [] cls = "Strategy002Hyperopt" /\ kind = "sell_strategy_generator" ->
            Strategy002_sell_strategy_generator(p, df)
      [] cls = "Strategy002Hyperopt" /\ kind = "populate_buy_trend" ->
            Strategy002_populate_buy_trend(df)
      [] cls = "Strategy002Hyperopt" /\ kind = "populate_sell_trend" ->
            Strategy002_populate_sell_trend(df)

(* -------------------------- parameter spaces --------------------------- *)

\* indicator_space(): dimension name -> declared domain.
BBRSI_indicator_space ==
    ("rsi-value" :> 5..50) @@ ("rsi-enabled" :> BOOLEAN) @@
    ("trigger" :> {"bb_lower1", "bb_lower2", "bb_lower3", "bb_lower4"})

\* sell_indicator_space().
BBRSI_sell_indicator_space ==
    ("sell-rsi-value" :> 30..100) @@ ("sell-rsi-enabled" :> BOOLEAN) @@
    ("sell-trigger" :> {"sell_bb_lower1", "sell_bb_middle1", "sell_bb_upper1"})

Strategy002_indicator_space ==
    ("rsi-value" :> 20..40) @@ ("slowk-value" :> 10..30) @@
    ("CDLHAMMER-value" :> 0..100) @@ ("slowk-enabled" :> BOOLEAN) @@
    ("rsi-enabled" :> BOOLEAN) @@ ("CDLHAMMER-enabled" :> BOOLEAN) @@
    ("trigger" :> {"bb_lower1", "bb_lower2", "bb_lower3", "bb_lower4"})

\* Real(-1.0, 1.0) is kept on the integer grid.
Strategy002_sell_indicator_space ==
    ("sell-fisher-rsi-value" :> -1..1) @@ ("sell-sar-value" :> -1..1) @@
    ("sell-fisher-rsi-enabled" :> BOOLEAN) @@ ("sell-sar-enabled" :> BOOLEAN)

\* The declared space an evaluator kind of a class is searched over.
SpaceOf(cls, kind) ==
    CASE cls = "BBRSIHyperOpt" /\ kind = "buy_strategy_generator" -> BBRSI_indicator_space
      [] cls = "BBRSIHyperOpt" /\ kind = "sell_strategy_generator" -> BBRSI_sell_indicator_space
      [] cls = "Strategy002Hyperopt" /\ kind = "buy_strategy_generator" ->
            Strategy002_indicator_space
      [] cls = "Strategy002Hyperopt" /\ kind = "sell_strategy_generator" ->
            Strategy002_sell_indicator_space

\* The optimizer's draws from a numeric range: one value of it per dimension.
Drawn ==
    ("rsi-value" :> {30}) @@ ("slowk-value" :> {20}) @@ ("CDLHAMMER-value" :> {100}) @@
    ("sell-rsi-value" :> {70}) @@ ("sell-fisher-rsi-value" :> {0}) @@
    ("sell-sar-value" :> {1})

Sampled(space) ==
    [k \in DOMAIN space |-> IF k \in DOMAIN Drawn THEN space[k] \cap Drawn[k] ELSE space[k]]

\* Keys outside the side's own space that the host's dict may carry: the
\* 'stoploss' of another space for every rule, and the two foreign keys the
\* code looks at, the buy-side 'trigger' for the BBRSI sell rule and the
\* undeclared 'CDLHAMMER' for the Strategy002 buy rule.
CarriedKeys(cls, kind) ==
    CASE cls = "BBRSIHyperOpt" /\ kind = "sell_strategy_generator" ->
            ("stoploss" :> {-1}) @@ ("trigger" :> BBRSI_indicator_space["trigger"])
      [] cls = "Strategy002Hyperopt" /\ kind = "buy_strategy_generator" ->
            ("stoploss" :> {-1}) @@ ("CDLHAMMER" :> {100})
      [] OTHER -> ("stoploss" :> {-1})

\* Every mapping over a subset of the keys of D, each key within D[key].
RECURSIVE PartialMaps(_)
PartialMaps(D) ==
    IF DOMAIN D = {} THEN {<<>>}
    ELSE LET k == CHOOSE x \in DOMAIN D : TRUE
             rest == PartialMaps([j \in DOMAIN D \ {k} |-> D[j]])
         IN  rest \cup { (k :> v) @@ f : v \in D[k], f \in rest }

\* The assignments a generator may be handed.
Assignments(cls, kind) == PartialMaps(Sampled(SpaceOf(cls, kind)) @@ CarriedKeys(cls, kind))

(* ------------------------------- actions ------------------------------- *)

Annotated(df) == "rsi" \in Columns(df)

Init ==
    /\ hyperopt \in HyperoptClasses
    /\ dataframe \in LoadableTables
    /\ params = <<>>
    /\ evaluator = "none"
    /\ before = dataframe
    /\ err = NoError
    /\ trace = [guards |-> 0, triggers |-> 0, mask |-> [i \in 1..Len(dataframe) |-> FALSE]]
    /\ calls = 0

\* The host calls populate_indicators once on the loaded table.
PopulateIndicators ==
    /\ evaluator = "none"
    /\ ~Annotated(dataframe)
    /\ dataframe' = populate_indicators(hyperopt, dataframe)
    /\ before' = dataframe'
    /\ UNCHANGED <<hyperopt, params, evaluator, err, trace, calls>>

\* buy_strategy_generator(params): the closure keeps the assignment.
BuyStrategyGenerator ==
    /\ evaluator = "none"
    /\ \E p \in Assignments(hyperopt, "buy_strategy_generator") : params' = p
    /\ evaluator' = "buy_strategy_generator"
    /\ UNCHANGED <<hyperopt, dataframe, before, err, trace, calls>>

\* sell_strategy_generator(params).
SellStrategyGenerator ==
    /\ evaluator = "none"
    /\ \E p \in Assignments(hyperopt, "sell_strategy_generator") : params' = p
    /\ evaluator' = "sell_strategy_generator"
    /\ UNCHANGED <<hyperopt, dataframe, before, err, trace, calls>>

\* The buy space is not searched: the host keeps the class's populate_buy_trend.
KeepPopulateBuyTrend ==
    /\ evaluator = "none"
    /\ evaluator' = "populate_buy_trend"
    /\ UNCHANGED <<hyperopt, dataframe, params, before, err, trace, calls>>

\* The sell space is not searched: the host keeps the class's populate_sell_trend.
KeepPopulateSellTrend ==
    /\ evaluator = "none"
    /\ evaluator' = "populate_sell_trend"
    /\ UNCHANGED <<hyperopt, dataframe, params, before, err, trace, calls>>

\* The host applies the evaluator it holds to the table.
Advise ==
    /\ evaluator # "none"
    /\ calls < MaxCalls
    /\ LET r == Evaluate(hyperopt, evaluator, params, dataframe)
       IN  /\ dataframe' = r.dataframe
           /\ err' = r.err
           /\ trace' = [guards |-> r.guards, triggers |-> r.triggers, mask |-> r.mask]
    /\ before' = dataframe
    /\ calls' = calls + 1
    /\ UNCHANGED <<hyperopt, params, evaluator>>

Next ==
    \/ PopulateIndicators
    \/ BuyStrategyGenerator
    \/ SellStrategyGenerator
    \/ KeepPopulateBuyTrend
    \/ KeepPopulateSellTrend
    \/ Advise

Spec == Init /\ [][Next]_vars

(* ------------------- what the rules are declared to be ------------------ *)

\* The guards a generator defines: enable key, value key, indicator column
\* and fixed operator.
GuardsOf(cls, kind) ==
    CASE cls = "BBRSIHyperOpt" /\ kind = "buy_strategy_generator" ->
            {[enabled |-> "rsi-enabled", value |-> "rsi-value", column |-> "rsi", op |-> "<"]}
      [] cls = "BBRSIHyperOpt" /\ kind = "sell_strategy_generator" ->
            {[enabled |-> "sell-rsi-enabled", value |-> "sell-rsi-value",
              column |-> "rsi", op |-> ">"]}
      [] cls = "Strategy002Hyperopt" /\ kind = "buy_strategy_generator" ->
            {[enabled |-> "rsi-enabled", value |-> "rsi-value", column |-> "rsi", op |-> "<"],
             [enabled |-> "slowk-enabled", value |-> "slowk-value",
              column |-> "slowk", op |-> "<"],
             [enabled |-> "CDLHAMMER-enabled", value |-> "CDLHAMMER-value",
              column |-> "CDLHAMMER", op |-> "=="]}
      [] cls = "Strategy002Hyperopt" /\ kind = "sell_strategy_generator" ->
            {[enabled |-> "sell-fisher-rsi-enabled", value |-> "sell-fisher-rsi-value",
              column |-> "rsi", op |-> ">"],
             [enabled |-> "sell-sar-enabled", value |-> "sell-sar-value",
              column |-> "sar", op |-> ">"]}

\* The trigger dimension of a generator's own space (none for the
\* Strategy002 sell rule) and the comparison each of its labels selects.
TriggerKeysOf(cls, kind) ==
    CASE cls = "BBRSIHyperOpt" /\ kind = "sell_strategy_generator" -> {"sell-trigger"}
      [] cls = "Strategy002Hyperopt" /\ kind = "sell_strategy_generator" -> {}
      [] OTHER -> {"trigger"}

BranchesOf(cls, kind) ==
    CASE cls = "BBRSIHyperOpt" /\ kind = "sell_strategy_generator" ->
            {[label |-> "sell_bb_lower1", lhs |-> "close", op |-> "<", rhs |-> "bb_lowerband1"],
             [label |-> "sell_bb_middle1", lhs |-> "close", op |-> "<", rhs |-> "bb_middleband1"],
             [label |-> "sell_bb_upper1", lhs |-> "close", op |-> "<", rhs |-> "bb_upperband1"]}
      [] cls = "Strategy002Hyperopt" /\ kind = "sell_strategy_generator" -> {}
      [] OTHER ->
            {[label |-> "bb_lower1", lhs |-> "close", op |-> "<", rhs |-> "bb_lowerband1"],
             [label |-> "bb_lower2", lhs |-> "close", op |-> "<", rhs |-> "bb_lowerband2"],
             [label |-> "bb_lower3", lhs |-> "close", op |-> "<", rhs |-> "bb_lowerband3"],
             [label |-> "bb_lower4", lhs |-> "close", op |-> "<", rhs |-> "bb_lowerband4"]}

(* --------------------------- reading a state ---------------------------- *)

\* A call has been made: `before` is the table it was given, `dataframe` the
\* table it handed back, `err` and `trace` what it raised and appended.
Applied == calls >= 1

AppliedGenerated == Applied /\ evaluator \in Generated

AppliedStatic == Applied /\ evaluator \in Static

Signal == SignalOf(evaluator)

OtherSignal == IF Signal = "buy" THEN "sell" ELSE "buy"

\* The assignment holds its side's declared space: every dimension, in range.
FromSpace(p, space) ==
    /\ DOMAIN space \subseteq DOMAIN p
    /\ \A k \in DOMAIN space : p[k] \in space[k]

Enabled(p, g) == g.enabled \in DOMAIN p /\ p[g.enabled]

\* The guards and trigger labels an assignment activates.
ActiveGuards(cls, kind, p) == { g \in GuardsOf(cls, kind) : Enabled(p, g) }

ActiveBranches(cls, kind, p) ==
    { b \in BranchesOf(cls, kind) :
        \E k \in TriggerKeysOf(cls, kind) : k \in DOMAIN p /\ p[k] = b.label }

\* Every active condition of the assignment holds on the row.
ActiveHold(cls, kind, p, row) ==
    /\ \A g \in ActiveGuards(cls, kind, p) : Holds(row[g.column], g.op, p[g.value])
    /\ \A b \in ActiveBranches(cls, kind, p) : Holds(row[b.lhs], b.op, row[b.rhs])

Unset(df, col) == \A i \in 1..Len(df) : df[i][col] = NaN

\* The signal a row carried when the host loaded the table.
LoadedSignal(row, col) ==
    IF StrategyColumns \subseteq DOMAIN row THEN Market[row["date"]][col] ELSE NaN

(* ------------------------------- claims -------------------------------- *)

\* C1: a generated evaluator, given an assignment of its declared space that
\* activates at least one condition and an annotated table whose signal
\* column is unset, marks a row with 1 exactly when every active condition
\* (each enabled guard, the comparison the trigger label selects) holds on it.
C1_MarksExactlyActiveRows ==
    (/\ AppliedGenerated
     /\ calls = 1
     /\ Annotated(before)
     /\ Unset(before, Signal)
     /\ FromSpace(params, SpaceOf(hyperopt, evaluator))
     /\ \/ ActiveGuards(hyperopt, evaluator, params) # {}
        \/ ActiveBranches(hyperopt, evaluator, params) # {})
    => \A i \in 1..Len(before) :
          dataframe[i][Signal] = One <=> ActiveHold(hyperopt, evaluator, params, before[i])

\* C2: a static rule applied to a table its class's populate_indicators has
\* annotated finds every column it reads: it raises no missing-column error.
C2_StaticRulesFindTheirColumns ==
    (AppliedStatic /\ Annotated(before)) => err = NoError

\* C3: a generated evaluator with a trigger dimension, given an assignment of
\* its declared space (trigger key present, label declared), appends exactly
\* one trigger condition per call.
C3_ExactlyOneTriggerBranch ==
    (/\ AppliedGenerated
     /\ Annotated(before)
     /\ TriggerKeysOf(hyperopt, evaluator) # {}
     /\ FromSpace(params, SpaceOf(hyperopt, evaluator)))
    => trace.triggers = 1

\* C4: when a guard's enable key is present and true, a call on an annotated
\* table with an unset signal column marks no row that fails the guard's
\* comparison against the assignment's value.
C4_EnabledGuardIsInConjunction ==
    (AppliedGenerated /\ calls = 1 /\ Annotated(before) /\ Unset(before, Signal))
    => \A g \in GuardsOf(hyperopt, evaluator) :
          (Enabled(params, g) /\ g.value \in DOMAIN params)
          => \A i \in 1..Len(before) :
                ~Holds(before[i][g.column], g.op, params[g.value])
                => dataframe[i][Signal] # One

\* C5: with every guard's enable key absent or false and no trigger key in
\* the assignment, a generated evaluator leaves the signal column of any table
\* as it found it.
C5_NoConditionNoMark ==
    (/\ AppliedGenerated
     /\ ActiveGuards(hyperopt, evaluator, params) = {}
     /\ TriggerKeysOf(hyperopt, evaluator) \cap DOMAIN params = {})
    => Column(dataframe, Signal) = Column(before, Signal)

C5_Witness ==
    /\ AppliedGenerated
    /\ err = NoError
    /\ ActiveGuards(hyperopt, evaluator, params) = {}
    /\ TriggerKeysOf(hyperopt, evaluator) \cap DOMAIN params = {}
    /\ \E g \in GuardsOf(hyperopt, evaluator) :
          g.enabled \in DOMAIN params /\ g.value \in DOMAIN params
    /\ Annotated(before)
    /\ \E i \in 1..Len(before) : before[i][Signal] = Zero
    /\ Column(dataframe, Signal) = Column(before, Signal)

\* C6: a generated evaluator applied to an annotated table raises no
\* key-lookup error, whatever subset of keys the assignment holds (here: every
\* enabled guard has its value key, any other key may be absent).
C6_AbsentKeysAreTolerated ==
    (/\ AppliedGenerated
     /\ Annotated(before)
     /\ \A g \in GuardsOf(hyperopt, evaluator) :
           Enabled(params, g) => g.value \in DOMAIN params)
    => err # KeyError

\* C7: applying an evaluator (generated or static) to the table its previous
\* application returned leaves the signal column as that application left it.
C7_SecondApplicationChangesNothing ==
    calls >= 2 => Column(dataframe, Signal) = Column(before, Signal)

C7_Witness ==
    /\ calls = 2
    /\ err = NoError
    /\ \E i \in 1..Len(dataframe) :
          /\ trace.mask[i]
          /\ dataframe[i][Signal] = One
          /\ LoadedSignal(dataframe[i], Signal) # One
    /\ \E i \in 1..Len(dataframe) : ~trace.mask[i]

\* The assignments that differ from p at most in the buy-space key 'trigger'.
TriggerVariants(p) ==
    LET rest == [k \in DOMAIN p \ {"trigger"} |-> p[k]]
    IN  {rest} \cup { ("trigger" :> t) @@ rest : t \in BBRSI_indicator_space["trigger"] }

\* C8: the outcome of the BBRSI sell evaluator (error, 'sell' column) does not
\* depend on the presence or value of the buy-space key 'trigger'.
C8_SellIgnoresBuyTrigger ==
    (/\ Applied
     /\ Annotated(before)
     /\ hyperopt = "BBRSIHyperOpt"
     /\ evaluator = "sell_strategy_generator")
    => \A alt \in TriggerVariants(params) :
          LET r == BBRSI_sell_strategy_generator(alt, before)
          IN  r.err = err /\ Column(r.dataframe, "sell") = Column(dataframe, "sell")

\* C9: a call of a generated evaluator keeps every mark that was set, and a
\* row on which the conjunction does not hold keeps its prior signal value.
C9_MarkingIsMonotonic ==
    AppliedGenerated
    => \A i \in 1..Len(before) :
          /\ before[i][Signal] = One => dataframe[i][Signal] = One
          /\ ~trace.mask[i] => dataframe[i][Signal] = before[i][Signal]

C9_Witness ==
    /\ AppliedGenerated
    /\ err = NoError
    /\ trace.guards + trace.triggers >= 2
    /\ \E i \in 1..Len(before) :
          ~trace.mask[i] /\ before[i][Signal] = One /\ dataframe[i][Signal] = One
    /\ \E i \in 1..Len(before) :
          trace.mask[i] /\ before[i][Signal] = Zero /\ dataframe[i][Signal] = One

\* C10: a call of any evaluator leaves the assignment, the row count, the row
\* order and every column but its own signal column as they were.
C10_OnlyOwnSignalColumnWritten ==
    [][calls' = calls + 1 =>
        /\ params' = params
        /\ Len(dataframe') = Len(dataframe)
        /\ \A i \in 1..Len(dataframe) :
              /\ DOMAIN dataframe'[i] = DOMAIN dataframe[i]
              /\ \A c \in DOMAIN dataframe[i] \ {SignalOf(evaluator)} :
                    dataframe'[i][c] = dataframe[i][c]]_vars

C10_Witness ==
    /\ Applied
    /\ err = NoError
    /\ params # <<>>
    /\ \E i \in 1..Len(before) :
          /\ trace.mask[i]
          /\ before[i][Signal] # One
          /\ dataframe[i][Signal] = One
          /\ dataframe[i][OtherSignal] = Zero

====
